---- MODULE Spec2Model ----
(***************************************************************************)
(* StoragePlus: a wrapper of a Web Storage handle (localStorage or         *)
(* sessionStorage) adding per-key expiry and key namespacing.              *)
(*                                                                         *)
(* Strings that the code inspects (keys, namespaces) are sequences of      *)
(* one-character strings, so that startsWith / substring / length are      *)
(* computed as the code computes them.  A stored text is represented by    *)
(* what JSON.parse makes of it (its parse tree, or the fact that it does   *)
(* not parse); JSON.stringify and JSON.parse are separate conversions.     *)
(***************************************************************************)
EXTENDS Integers, Sequences, FiniteSets, TLC

VARIABLES store, now

vars == <<store, now>>

(***************************************************************************)
(* Bounds of the model.                                                    *)
(***************************************************************************)
\* the clock runs from 0 to MaxTime
MaxTime == 2

(***************************************************************************)
(* JavaScript values and "absent" markers.                                 *)
(***************************************************************************)
\* the number-or-null fields: JS null and JS undefined (a missing property)
Null == -1
Absent == -2

JsUndefined == "undefined"
JsNull == "null"
JsNaN == "NaN"
JsString == "v"
JsOther == "w"
JsBigInt == "1n"

\* JSON texts of a value, and the marker of a property that is not there
JsonNull == "null"
JsonString == "\"v\""
JsonOther == "\"w\""
JsonAbsent == "absent"

(***************************************************************************)
(* Strings.                                                                *)
(***************************************************************************)
EmptyString == << >>
Colon == <<":">>
TestSuffix == <<"_", "_", "t", "e", "s", "t", "_", "_">>

startsWith(s, p) == Len(p) <= Len(s) /\ SubSeq(s, 1, Len(p)) = p
substring(s, n) == SubSeq(s, n + 1, Len(s))

\* number of decimal digits of a natural number
RECURSIVE Digits(_)
Digits(n) == IF n < 10 THEN 1 ELSE 1 + Digits(n \div 10)

(***************************************************************************)
(* Stored texts.                                                           *)
(***************************************************************************)
\* what getItem returns for a key that is not there (JS null)
NoData == [kind |-> "none", value |-> JsonAbsent, expiresAt |-> Absent, createdAt |-> Absent]
\* the empty string
EmptyText == [kind |-> "empty", value |-> JsonAbsent, expiresAt |-> Absent, createdAt |-> Absent]
\* the text  test  written by the availability probe: not JSON
TestText == [kind |-> "notjson", value |-> JsonAbsent, expiresAt |-> Absent, createdAt |-> Absent]
\* the JSON text  null
NullText == [kind |-> "jsonnull", value |-> JsonAbsent, expiresAt |-> Absent, createdAt |-> Absent]
\* the JSON text  5
ScalarText == [kind |-> "scalar", value |-> JsonAbsent, expiresAt |-> Absent, createdAt |-> Absent]
\* the JSON text of an object with the given properties
ObjectText(v, e, c) == [kind |-> "object", value |-> v, expiresAt |-> e, createdAt |-> c]

\* length of the JSON text of a number-or-null property
NumLen(x) == IF x = Null THEN 4 ELSE Digits(x)
\* length of the JSON text of the payload
ValueLen(v) == IF v = JsonNull THEN 4 ELSE 3
\* String.length of a stored text
TextLen(text) ==
  CASE text.kind = "empty" -> 0
    [] text.kind = "notjson" -> 4
    [] text.kind = "jsonnull" -> 4
    [] text.kind = "scalar" -> 1
    [] text.kind = "object" ->
         LET fv == IF text.value = JsonAbsent THEN << >> ELSE <<8 + ValueLen(text.value)>>
             fe == IF text.expiresAt = Absent THEN << >> ELSE <<12 + NumLen(text.expiresAt)>>
             fc == IF text.createdAt = Absent THEN << >> ELSE <<12 + NumLen(text.createdAt)>>
             fs == fv \o fe \o fc
             sum == IF Len(fs) = 0 THEN 0
                    ELSE IF Len(fs) = 1 THEN fs[1]
                    ELSE IF Len(fs) = 2 THEN fs[1] + fs[2]
                    ELSE fs[1] + fs[2] + fs[3]
         IN 2 + sum + (IF Len(fs) = 0 THEN 0 ELSE Len(fs) - 1)
    [] OTHER -> 0

(***************************************************************************)
(* JSON.stringify and JSON.parse of the payload.                           *)
(***************************************************************************)
\* JSON.stringify throws a TypeError on a BigInt
StringifyThrows(v) == v = JsBigInt

\* the payload property in the JSON text: undefined is dropped, NaN becomes null
StringifyValue(v) ==
  CASE v = JsUndefined -> JsonAbsent
    [] v = JsNaN -> JsonNull
    [] v = JsNull -> JsonNull
    [] v = JsOther -> JsonOther
    [] OTHER -> JsonString

\* the payload JSON.parse gives back
ParseValue(j) ==
  CASE j = JsonNull -> JsNull
    [] j = JsonString -> JsString
    [] j = JsonOther -> JsOther
    [] OTHER -> JsUndefined

\* JSON.stringify(item): expiresAt and createdAt are numbers or null
Stringify(item) == ObjectText(StringifyValue(item.value), item.expiresAt, item.createdAt)

(***************************************************************************)
(* The Storage handle: an ordered list of entries, read by index.          *)
(***************************************************************************)
KeyIndex(st, k) == IF \E i \in 1..Len(st) : st[i].key = k
                   THEN CHOOSE i \in 1..Len(st) : st[i].key = k
                   ELSE 0

\* Storage.length
length(st) == Len(st)
\* Storage.key(i), i counted from 0
key(st, i) == st[i + 1].key
\* Storage.getItem
getItem(st, k) == IF KeyIndex(st, k) = 0 THEN NoData ELSE st[KeyIndex(st, k)].text
\* Storage.setItem: an existing key keeps its place, a new key goes last
setItem(st, k, text) ==
  IF KeyIndex(st, k) = 0
  THEN Append(st, [key |-> k, text |-> text])
  ELSE [st EXCEPT ![KeyIndex(st, k)] = [key |-> k, text |-> text]]
\* Storage.removeItem: the entries after the removed one move up by one
removeItem(st, k) ==
  IF KeyIndex(st, k) = 0 THEN st
  ELSE SubSeq(st, 1, KeyIndex(st, k) - 1) \o SubSeq(st, KeyIndex(st, k) + 1, Len(st))

HasKey(st, k) == KeyIndex(st, k) # 0

(***************************************************************************)
(* Store faults.  F = [at, sticky]: the store call number F.at of one      *)
(* public operation throws (0: none does); with sticky, so does every      *)
(* later call of that operation (a store that became unavailable).         *)
(***************************************************************************)
NoFault == [at |-> 0, sticky |-> FALSE]
Throws(F, n) == F.at # 0 /\ (n = F.at \/ (F.sticky /\ n > F.at))

\* what an operation leaves: the store, the returned value, the number of
\* store calls made so far, and whether a fault was caught (a warning is
\* printed for it when enableWarnings is set)
Res(st, ret, n, threw) == [st |-> st, ret |-> ret, n |-> n, threw |-> threw]

(***************************************************************************)
(* StoragePlus.                                                            *)
(***************************************************************************)
\* the namespace taken as the prefix, without the separator
Instance_NoSeparator(opts) ==
  [namespace |-> opts.namespace,
   defaultTTL |-> IF opts.defaultTTL = Absent \/ opts.defaultTTL = 0 THEN Null ELSE opts.defaultTTL,
   enableWarnings |-> IF opts.enableWarnings = "undefined" THEN TRUE ELSE opts.enableWarnings = "true"]

\* the fields the constructor sets from its options
Instance(opts) ==
  [namespace |-> IF opts.namespace # EmptyString THEN opts.namespace \o Colon ELSE EmptyString,
   defaultTTL |-> IF opts.defaultTTL = Absent \/ opts.defaultTTL = 0 THEN Null ELSE opts.defaultTTL,
   enableWarnings |-> IF opts.enableWarnings = "undefined" THEN TRUE ELSE opts.enableWarnings = "true"]

\* the catch blocks call console.warn when enableWarnings is set
warned(inst, r) == inst.enableWarnings /\ r.threw

\* the availability probe: write then delete  <namespace>__test__
testStorage(inst, st, F) ==
  LET testKey == inst.namespace \o TestSuffix
  IN IF Throws(F, 1) THEN Res(st, TRUE, 1, TRUE)
     ELSE IF Throws(F, 2) THEN Res(setItem(st, testKey, TestText), TRUE, 2, TRUE)
     ELSE Res(removeItem(setItem(st, testKey, TestText), testKey), TRUE, 2, FALSE)

getKey(inst, k) == inst.namespace \o k

NoItem == [value |-> JsUndefined, expiresAt |-> Absent, createdAt |-> Absent]

\* without the test for null:  Date.now() > null  compares with 0
isExpired_NoNullTest(item, t) ==
  IF item.expiresAt = Absent THEN FALSE
  ELSE IF item.expiresAt = Null THEN t > 0
  ELSE t > item.expiresAt

\* one millisecond late
isExpired_Late(item, t) ==
  IF item.expiresAt = Null \/ item.expiresAt = Absent THEN FALSE
  ELSE t > item.expiresAt + 1

isExpired(item, t) ==
  IF item.expiresAt = Null THEN FALSE
  ELSE IF item.expiresAt = Absent THEN FALSE   \* Date.now() > undefined
  ELSE t > item.expiresAt

\* JSON.parse throws on a text that is not JSON;  'value' in null  throws;
\* a number is no object; an object must own value and createdAt
parseStoredData(data) ==
  IF data.kind \in {"empty", "notjson"} THEN NoItem
  ELSE IF data.kind = "jsonnull" THEN NoItem
  ELSE IF data.kind # "object" THEN NoItem
  ELSE IF data.value # JsonAbsent /\ data.createdAt # Absent
       THEN [value |-> ParseValue(data.value), expiresAt |-> data.expiresAt,
             createdAt |-> data.createdAt]
       ELSE NoItem

\* const ttl = options.ttl ?? this.defaultTTL
resolveTtl_IgnoresOption(inst, ttlOpt) == inst.defaultTTL

resolveTtl(inst, ttlOpt) ==
  IF ttlOpt # Absent /\ ttlOpt # Null THEN ttlOpt ELSE inst.defaultTTL

\* const expiresAt = ttl ? now + ttl : null
expiresAtOf(ttl, t) == IF ttl # Null /\ ttl # 0 THEN t + ttl ELSE Null

\* the catch block returning something only when it warns
set_FailsOnlyWithWarning(inst, k, v, ttlOpt, st, t, F, c) ==
  LET ttl == resolveTtl(inst, ttlOpt)
      item == [value |-> v, expiresAt |-> expiresAtOf(ttl, t), createdAt |-> t]
      fullKey == getKey(inst, k)
  IN IF StringifyThrows(v) THEN Res(st, ~inst.enableWarnings, c, TRUE)
     ELSE IF Throws(F, c + 1) THEN Res(st, ~inst.enableWarnings, c + 1, TRUE)
     ELSE Res(setItem(st, fullKey, Stringify(item)), TRUE, c + 1, FALSE)

\* the catch block reporting success
set_ReportsSuccess(inst, k, v, ttlOpt, st, t, F, c) ==
  LET ttl == resolveTtl(inst, ttlOpt)
      item == [value |-> v, expiresAt |-> expiresAtOf(ttl, t), createdAt |-> t]
      fullKey == getKey(inst, k)
  IN IF StringifyThrows(v) THEN Res(st, TRUE, c, TRUE)
     ELSE IF Throws(F, c + 1) THEN Res(st, TRUE, c + 1, TRUE)
     ELSE Res(setItem(st, fullKey, Stringify(item)), TRUE, c + 1, FALSE)

set(inst, k, v, ttlOpt, st, t, F, c) ==
  LET ttl == resolveTtl(inst, ttlOpt)
      item == [value |-> v, expiresAt |-> expiresAtOf(ttl, t), createdAt |-> t]
      fullKey == getKey(inst, k)
  IN IF StringifyThrows(v) THEN Res(st, FALSE, c, TRUE)
     ELSE IF Throws(F, c + 1) THEN Res(st, FALSE, c + 1, TRUE)
     ELSE Res(setItem(st, fullKey, Stringify(item)), TRUE, c + 1, FALSE)

\* an unparseable entry left in the store
get_KeepsCorrupt(inst, k, st, t, F, c) ==
  LET fullKey == getKey(inst, k)
      data == getItem(st, fullKey)
      item == parseStoredData(data)
  IN IF Throws(F, c + 1) THEN Res(st, JsNull, c + 1, TRUE)
     ELSE IF data = NoData THEN Res(st, JsNull, c + 1, FALSE)
     ELSE IF item = NoItem THEN Res(st, JsNull, c + 1, FALSE)
     ELSE IF isExpired(item, t) THEN
            IF Throws(F, c + 2) THEN Res(st, JsNull, c + 2, TRUE)
            ELSE Res(removeItem(st, fullKey), JsNull, c + 2, FALSE)
     ELSE Res(st, item.value, c + 1, FALSE)

\* the user key, without the namespace prefix, passed to removeItem
get_RemovesUserKey(inst, k, st, t, F, c) ==
  LET fullKey == getKey(inst, k)
      data == getItem(st, fullKey)
      item == parseStoredData(data)
  IN IF Throws(F, c + 1) THEN Res(st, JsNull, c + 1, TRUE)
     ELSE IF data = NoData THEN Res(st, JsNull, c + 1, FALSE)
     ELSE IF item = NoItem \/ isExpired(item, t) THEN
            IF Throws(F, c + 2) THEN Res(st, JsNull, c + 2, TRUE)
            ELSE Res(removeItem(st, k), JsNull, c + 2, FALSE)
     ELSE Res(st, item.value, c + 1, FALSE)

get(inst, k, st, t, F, c) ==
  LET fullKey == getKey(inst, k)
      data == getItem(st, fullKey)
      item == parseStoredData(data)
  IN IF Throws(F, c + 1) THEN Res(st, JsNull, c + 1, TRUE)
     ELSE IF data = NoData THEN Res(st, JsNull, c + 1, FALSE)
     ELSE IF item = NoItem THEN
            IF Throws(F, c + 2) THEN Res(st, JsNull, c + 2, TRUE)
            ELSE Res(removeItem(st, fullKey), JsNull, c + 2, FALSE)
     ELSE IF isExpired(item, t) THEN
            IF Throws(F, c + 2) THEN Res(st, JsNull, c + 2, TRUE)
            ELSE Res(removeItem(st, fullKey), JsNull, c + 2, FALSE)
     ELSE Res(st, item.value, c + 1, FALSE)

has(inst, k, st, t, F, c) ==
  LET g == get(inst, k, st, t, F, c)
  IN Res(g.st, g.ret # JsNull, g.n, g.threw)

\* the user key passed to the store, without the namespace prefix
remove_UserKey(inst, k, st, F, c) ==
  IF Throws(F, c + 1) THEN Res(st, FALSE, c + 1, TRUE)
  ELSE Res(removeItem(st, k), TRUE, c + 1, FALSE)

\* the catch block reporting success
remove_ReportsSuccess(inst, k, st, F, c) ==
  IF Throws(F, c + 1) THEN Res(st, TRUE, c + 1, TRUE)
  ELSE Res(removeItem(st, getKey(inst, k)), TRUE, c + 1, FALSE)

remove(inst, k, st, F, c) ==
  IF Throws(F, c + 1) THEN Res(st, FALSE, c + 1, TRUE)
  ELSE Res(removeItem(st, getKey(inst, k)), TRUE, c + 1, FALSE)

\* keysToRemove.forEach(key => this.storage.removeItem(key)), counting the removals
RECURSIVE RemoveAll(_, _, _, _, _)
RemoveAll(st, ks, F, n, j) ==
  IF j > Len(ks) THEN Res(st, j - 1, n, FALSE)
  ELSE IF Throws(F, n + 1) THEN Res(st, j - 1, n + 1, TRUE)
  ELSE RemoveAll(removeItem(st, ks[j]), ks, F, n + 1, j + 1)

\* the loop of clear(): collect the full keys with the namespace prefix
RECURSIVE ClearScan(_, _, _, _, _, _)
ClearScan(inst, st, F, n, i, acc) ==
  IF Throws(F, n + 1) THEN Res(st, acc, n + 1, TRUE)
  ELSE IF ~(i < length(st)) THEN Res(st, acc, n + 1, FALSE)
  ELSE IF Throws(F, n + 2) THEN Res(st, acc, n + 2, TRUE)
  ELSE IF key(st, i) # EmptyString /\ startsWith(key(st, i), inst.namespace)
       THEN ClearScan(inst, st, F, n + 2, i + 1, Append(acc, key(st, i)))
       ELSE ClearScan(inst, st, F, n + 2, i + 1, acc)

clear(inst, st, F) ==
  LET scan == ClearScan(inst, st, F, 0, 0, << >>)
      del == RemoveAll(st, scan.ret, F, scan.n, 1)
  IN IF scan.threw THEN Res(st, FALSE, scan.n, TRUE)
     ELSE IF del.threw THEN Res(del.st, FALSE, del.n, TRUE)
     ELSE Res(del.st, TRUE, del.n, FALSE)

\* the loop of keys(); has() catches the faults of its own store calls
RECURSIVE KeysLoop(_, _, _, _, _, _, _, _)
KeysLoop(inst, st, t, F, n, i, acc, threw) ==
  IF Throws(F, n + 1) THEN Res(st, acc, n + 1, TRUE)
  ELSE IF ~(i < length(st)) THEN Res(st, acc, n + 1, threw)
  ELSE IF Throws(F, n + 2) THEN Res(st, acc, n + 2, TRUE)
  ELSE IF key(st, i) # EmptyString /\ startsWith(key(st, i), inst.namespace)
       THEN LET k == substring(key(st, i), Len(inst.namespace))
                h == has(inst, k, st, t, F, n + 2)
            IN KeysLoop(inst, h.st, t, F, h.n, i + 1,
                        IF h.ret THEN Append(acc, k) ELSE acc, threw \/ h.threw)
       ELSE KeysLoop(inst, st, t, F, n + 2, i + 1, acc, threw)

keys(inst, st, t, F) == KeysLoop(inst, st, t, F, 0, 0, << >>, FALSE)

RECURSIVE SizeLoop(_, _, _, _, _, _)
SizeLoop(inst, st, F, n, i, totalSize) ==
  IF Throws(F, n + 1) THEN Res(st, totalSize, n + 1, TRUE)
  ELSE IF ~(i < length(st)) THEN Res(st, totalSize, n + 1, FALSE)
  ELSE IF Throws(F, n + 2) THEN Res(st, totalSize, n + 2, TRUE)
  ELSE IF key(st, i) # EmptyString /\ startsWith(key(st, i), inst.namespace)
       THEN IF Throws(F, n + 3) THEN Res(st, totalSize, n + 3, TRUE)
            ELSE LET value == getItem(st, key(st, i))
                 IN IF value # NoData /\ value # EmptyText
                    THEN SizeLoop(inst, st, F, n + 3, i + 1,
                                  totalSize + Len(key(st, i)) + TextLen(value))
                    ELSE SizeLoop(inst, st, F, n + 3, i + 1, totalSize)
       ELSE SizeLoop(inst, st, F, n + 2, i + 1, totalSize)

size(inst, st, F) == SizeLoop(inst, st, F, 0, 0, 0)

\* the loop of cleanup() without the test for the namespace prefix
RECURSIVE CleanupScan_AnyKey(_, _, _, _, _, _, _)
CleanupScan_AnyKey(inst, st, t, F, n, i, acc) ==
  IF Throws(F, n + 1) THEN Res(st, acc, n + 1, TRUE)
  ELSE IF ~(i < length(st)) THEN Res(st, acc, n + 1, FALSE)
  ELSE IF Throws(F, n + 2) THEN Res(st, acc, n + 2, TRUE)
  ELSE IF Throws(F, n + 3) THEN Res(st, acc, n + 3, TRUE)
  ELSE LET data == getItem(st, key(st, i))
           item == parseStoredData(data)
       IN IF data # NoData /\ data # EmptyText /\ item # NoItem /\ isExpired(item, t)
          THEN CleanupScan_AnyKey(inst, st, t, F, n + 3, i + 1, Append(acc, key(st, i)))
          ELSE CleanupScan_AnyKey(inst, st, t, F, n + 3, i + 1, acc)

\* the loop of cleanup(): collect the full keys of parseable, expired entries
RECURSIVE CleanupScan(_, _, _, _, _, _, _)
CleanupScan(inst, st, t, F, n, i, acc) ==
  IF Throws(F, n + 1) THEN Res(st, acc, n + 1, TRUE)
  ELSE IF ~(i < length(st)) THEN Res(st, acc, n + 1, FALSE)
  ELSE IF Throws(F, n + 2) THEN Res(st, acc, n + 2, TRUE)
  ELSE IF key(st, i) # EmptyString /\ startsWith(key(st, i), inst.namespace)
       THEN IF Throws(F, n + 3) THEN Res(st, acc, n + 3, TRUE)
            ELSE LET data == getItem(st, key(st, i))
                     item == parseStoredData(data)
                 IN IF data # NoData /\ data # EmptyText
                       /\ item # NoItem /\ isExpired(item, t)
                    THEN CleanupScan(inst, st, t, F, n + 3, i + 1, Append(acc, key(st, i)))
                    ELSE CleanupScan(inst, st, t, F, n + 3, i + 1, acc)
       ELSE CleanupScan(inst, st, t, F, n + 2, i + 1, acc)

cleanup(inst, st, t, F) ==
  LET scan == CleanupScan(inst, st, t, F, 0, 0, << >>)
      del == RemoveAll(st, scan.ret, F, scan.n, 1)
  IN IF scan.threw THEN Res(st, 0, scan.n, TRUE)
     ELSE del

NotExists == [exists |-> FALSE, createdAt |-> Absent, expiresAt |-> Absent, size |-> Absent]

getInfo(inst, k, st, t, F) ==
  LET fullKey == getKey(inst, k)
      data == getItem(st, fullKey)
      item == parseStoredData(data)
  IN IF Throws(F, 1) THEN Res(st, NotExists, 1, TRUE)
     ELSE IF data = NoData THEN Res(st, NotExists, 1, FALSE)
     ELSE IF item = NoItem THEN Res(st, NotExists, 1, FALSE)
     ELSE IF isExpired(item, t) THEN
            IF Throws(F, 2) THEN Res(st, NotExists, 2, TRUE)
            ELSE Res(removeItem(st, fullKey), NotExists, 2, FALSE)
     ELSE Res(st, [exists |-> TRUE, createdAt |-> item.createdAt,
                   expiresAt |-> item.expiresAt, size |-> TextLen(data)], 1, FALSE)

(***************************************************************************)
(* The inputs the operations are called with.                              *)
(***************************************************************************)
NsNone == EmptyString
NsA == <<"a">>
NsAb == <<"a", "b">>

KeyEmpty == EmptyString
KeyX == <<"x">>
KeyY == <<"y">>
KeyAX == <<"a", ":", "x">>

Options(nss, ttls, warns) == [namespace : nss, defaultTTL : ttls, enableWarnings : warns]

\* the instances that the given options construct
Instances(opts) == {Instance(o) : o \in opts}

\* the instance constructed with a namespace and no other option
Plain(ns) == Instance([namespace |-> ns, defaultTTL |-> Absent, enableWarnings |-> "undefined"])

\* a universe of inputs the model takes steps with: the instances, the
\* (instance, user key) pairs of the keyed calls, payloads, per-call ttls,
\* texts that another writer puts into the store, and store faults
Universe(insts, calls, vs, ttls, texts, faults) ==
  [insts |-> insts, calls |-> calls, values |-> vs, ttls |-> ttls, texts |-> texts,
   faults |-> faults]

On(inst, k) == [inst |-> inst, key |-> k]

FullKeys(U) == {getKey(c.inst, c.key) : c \in U.calls}

(***************************************************************************)
(* The state: the underlying store and the clock (Date.now()).  An         *)
(* instance holds the store handle and three fields that never change, so  *)
(* it is a value: the calls below take it as an input.                     *)
(***************************************************************************)
\* every instance has been constructed over the empty store
Init ==
  /\ store = << >>
  /\ now = 0

Construct(inst, F) ==
  \E r \in {testStorage(inst, store, F)} :
     /\ store' = r.st
     /\ UNCHANGED now

Set(inst, k, v, ttlOpt, F) ==
  \E r \in {set(inst, k, v, ttlOpt, store, now, F, 0)} :
     /\ store' = r.st
     /\ UNCHANGED now

Get(inst, k, F) ==
  \E r \in {get(inst, k, store, now, F, 0)} :
     /\ store' = r.st
     /\ UNCHANGED now

Has(inst, k, F) ==
  \E r \in {has(inst, k, store, now, F, 0)} :
     /\ store' = r.st
     /\ UNCHANGED now

Remove(inst, k, F) ==
  \E r \in {remove(inst, k, store, F, 0)} :
     /\ store' = r.st
     /\ UNCHANGED now

Clear(inst, F) ==
  \E r \in {clear(inst, store, F)} :
     /\ store' = r.st
     /\ UNCHANGED now

Keys(inst, F) ==
  \E r \in {keys(inst, store, now, F)} :
     /\ store' = r.st
     /\ UNCHANGED now

Size(inst, F) ==
  \E r \in {size(inst, store, F)} :
     /\ store' = r.st
     /\ UNCHANGED now

Cleanup(inst, F) ==
  \E r \in {cleanup(inst, store, now, F)} :
     /\ store' = r.st
     /\ UNCHANGED now

GetInfo(inst, k, F) ==
  \E r \in {getInfo(inst, k, store, now, F)} :
     /\ store' = r.st
     /\ UNCHANGED now

\* another writer of the same store puts a text under a full key
Inject(fullKey, text) ==
  /\ store' = setItem(store, fullKey, text)
  /\ UNCHANGED now

\* time passes
Tick ==
  /\ now < MaxTime
  /\ now' = now + 1
  /\ UNCHANGED store

NextOver(U) ==
  \/ \E i \in U.insts, F \in U.faults : Construct(i, F)
  \/ \E c \in U.calls, v \in U.values, ttlOpt \in U.ttls, F \in U.faults :
       Set(c.inst, c.key, v, ttlOpt, F)
  \/ \E c \in U.calls, F \in U.faults : Get(c.inst, c.key, F)
  \/ \E c \in U.calls, F \in U.faults : Has(c.inst, c.key, F)
  \/ \E c \in U.calls, F \in U.faults : Remove(c.inst, c.key, F)
  \/ \E i \in U.insts, F \in U.faults : Clear(i, F)
  \/ \E i \in U.insts, F \in U.faults : Keys(i, F)
  \/ \E i \in U.insts, F \in U.faults : Size(i, F)
  \/ \E i \in U.insts, F \in U.faults : Cleanup(i, F)
  \/ \E c \in U.calls, F \in U.faults : GetInfo(c.inst, c.key, F)
  \/ \E fk \in FullKeys(U), text \in U.texts : Inject(fk, text)
  \/ Tick

\* The calls the model takes steps with: an un-namespaced instance with the
\* empty key, an instance of namespace "a" with two keys; the store holds
\* the full keys  "",  "a:x"  and  "a:y"  (the last two are also the keys
\* "a:x" and "a:y" of the un-namespaced instance).  No store call throws.
USpec == Universe({Plain(NsNone), Plain(NsA)},
                  {On(Plain(NsNone), KeyEmpty), On(Plain(NsA), KeyX), On(Plain(NsA), KeyY)},
                  {JsString}, {Absent, 1}, {EmptyText, TestText}, {NoFault})

Next == NextOver(USpec)

Spec == Init /\ [][Next]_vars

\* the store call number 1..MaxFaultAt of a step may throw
MaxFaultAt == 2

\* The same calls on a store that faults: an instance of namespace "a" with
\* two keys; a call of any operation may throw, once or from then on.
UFault == Universe({Plain(NsA)},
                   {On(Plain(NsA), KeyX), On(Plain(NsA), KeyY)},
                   {JsString}, {Absent, 1}, {TestText},
                   {NoFault} \cup [at : 1..MaxFaultAt, sticky : BOOLEAN])

NextFault == NextOver(UFault)

SpecFault == Init /\ [][NextFault]_vars

(***************************************************************************)
(* The inputs the properties quantify over.  An instance is its three      *)
(* fields, so every instance can be applied to every reachable store.      *)
(***************************************************************************)
NsAColonB == <<"a", ":", "b">>
AllNamespaces == {NsNone, NsA, NsAb, NsAColonB}
AllInstances == Instances(Options(AllNamespaces, {Absent, 0, 2}, {"undefined"}))
AllKeys == {KeyEmpty, KeyX, KeyY, KeyAX}
AllValues == {JsUndefined, JsNull, JsNaN, JsString, JsOther, JsBigInt}
\* the payloads that JSON.stringify accepts and JSON.parse gives back unchanged
JsonValues == {v \in AllValues : /\ ~StringifyThrows(v)
                                  /\ StringifyValue(v) # JsonAbsent
                                  /\ ParseValue(StringifyValue(v)) = v}
\* the clock values from now on, past every expiry time a stored entry can have
Later == {now, now + 1, MaxTime + 3}

Entry(st, fullKey) == st[KeyIndex(st, fullKey)]
\* the entry under fullKey is an envelope with value and createdAt
WellFormed(st, fullKey) ==
  /\ HasKey(st, fullKey)
  /\ Entry(st, fullKey).text.kind = "object"
  /\ Entry(st, fullKey).text.value # JsonAbsent
  /\ Entry(st, fullKey).text.createdAt # Absent
\* ... whose expiresAt is a number smaller than the time t
Expired(st, fullKey, t) ==
  /\ WellFormed(st, fullKey)
  /\ Entry(st, fullKey).text.expiresAt >= 0
  /\ Entry(st, fullKey).text.expiresAt < t
Active(st, fullKey, t) == WellFormed(st, fullKey) /\ ~Expired(st, fullKey, t)

Elements(seq) == {seq[j] : j \in 1..Len(seq)}

(***************************************************************************)
(* C1 as stated: with no per-call ttl and no defaultTTL, on a store that   *)
(* does not fault, set(k, v) then get(k) returns v for every key k and     *)
(* EVERY value v, however much later get is called.                        *)
(***************************************************************************)
C1_EveryValue ==
  \A inst \in AllInstances, k \in AllKeys, v \in AllValues, t2 \in Later :
    inst.defaultTTL = Null =>
      LET s == set(inst, k, v, Absent, store, now, NoFault, 0)
      IN get(inst, k, s.st, t2, NoFault, 0).ret = v

(***************************************************************************)
(* C1 amended: with no per-call ttl and no defaultTTL, on a store that     *)
(* does not fault, set(k, v) returns true and a get(k) at any later time   *)
(* returns v, for every key k and every value v that survives the JSON     *)
(* round trip (not undefined, NaN or a BigInt).                            *)
(***************************************************************************)
C1_RoundTrip ==
  \A inst \in AllInstances, k \in AllKeys, v \in JsonValues, t2 \in Later :
    inst.defaultTTL = Null =>
      LET s == set(inst, k, v, Absent, store, now, NoFault, 0)
      IN s.ret = TRUE /\ get(inst, k, s.st, t2, NoFault, 0).ret = v

\* an entry written at time 0 without expiry is read at MaxTime
C1_Witness ==
  /\ now = MaxTime
  /\ HasKey(store, getKey(Plain(NsA), KeyX))
  /\ Entry(store, getKey(Plain(NsA), KeyX)).text = ObjectText(JsonString, Null, 0)
  /\ get(Plain(NsA), KeyX, store, now, NoFault, 0).ret = JsString

(***************************************************************************)
(* C2 as stated: for every key k, EVERY value v and ttl > 0, after         *)
(* set(k, v, {ttl}) a get(k) at the same instant returns v; once the clock *)
(* has advanced by more than ttl, get(k) returns null and after that get   *)
(* the full key of k is not in the store.                                  *)
(***************************************************************************)
PositiveTtls == {1, 2}

C2_EveryValue ==
  \A inst \in AllInstances, k \in AllKeys, v \in AllValues, ttl \in PositiveTtls :
    LET s == set(inst, k, v, ttl, store, now, NoFault, 0)
    IN /\ get(inst, k, s.st, now, NoFault, 0).ret = v
       /\ \A t2 \in {now + ttl + 1, MaxTime + 3} :
            LET g == get(inst, k, s.st, t2, NoFault, 0)
            IN g.ret = JsNull /\ ~HasKey(g.st, getKey(inst, k))

(***************************************************************************)
(* C2 amended: the same, for every value v that survives the JSON round    *)
(* trip (not undefined, NaN or a BigInt): get(k) at the instant of the set *)
(* returns v, and also at the instant the ttl has just elapsed; once the   *)
(* clock has advanced by more than ttl, get(k) returns null and removes    *)
(* the full key of k from the store.                                       *)
(***************************************************************************)
C2_Ttl ==
  \A inst \in AllInstances, k \in AllKeys, v \in JsonValues, ttl \in PositiveTtls :
    LET s == set(inst, k, v, ttl, store, now, NoFault, 0)
    IN /\ s.ret = TRUE
       /\ get(inst, k, s.st, now, NoFault, 0).ret = v
       /\ get(inst, k, s.st, now + ttl, NoFault, 0).ret = v
       /\ \A t2 \in {now + ttl + 1, MaxTime + 3} :
            LET g == get(inst, k, s.st, t2, NoFault, 0)
            IN g.ret = JsNull /\ ~HasKey(g.st, getKey(inst, k))

\* an entry written at time 0 with ttl 1 is read at time 2: null, and removed
C2_Witness ==
  /\ now = 2
  /\ HasKey(store, getKey(Plain(NsA), KeyX))
  /\ Entry(store, getKey(Plain(NsA), KeyX)).text = ObjectText(JsonString, 1, 0)
  /\ get(Plain(NsA), KeyX, store, now, NoFault, 0).ret = JsNull
  /\ ~HasKey(get(Plain(NsA), KeyX, store, now, NoFault, 0).st, getKey(Plain(NsA), KeyX))

(***************************************************************************)
(* C3: in every reachable state, whichever store call faults, no read      *)
(* surfaces an entry whose expiresAt is a number smaller than the current  *)
(* time: get returns null for it, has returns false, getInfo reports       *)
(* exists: false, and keys does not list it.                               *)
(***************************************************************************)
\* the store calls of one operation number at most 4 per entry and 2 more
MaxCalls(st) == 4 * Len(st) + 2
AllFaults(st) == {NoFault} \cup [at : 1..MaxCalls(st), sticky : BOOLEAN]
PlainInstances == {Plain(ns) : ns \in AllNamespaces}
\* set, get, has, remove and getInfo make at most two store calls
KeyedFaults == {NoFault} \cup [at : 1..2, sticky : {FALSE}]

C3_NoStaleRead ==
  \A inst \in PlainInstances, F \in AllFaults(store) :
    /\ \A k \in AllKeys :
         Expired(store, getKey(inst, k), now) =>
           /\ get(inst, k, store, now, F, 0).ret = JsNull
           /\ has(inst, k, store, now, F, 0).ret = FALSE
           /\ getInfo(inst, k, store, now, F).ret.exists = FALSE
    /\ \A u \in Elements(keys(inst, store, now, F).ret) :
         ~Expired(store, getKey(inst, u), now)

\* the store holds an expired entry after a live one of the same namespace;
\* keys lists the live one only and get returns null for the expired one
C3_Witness ==
  /\ Expired(store, getKey(Plain(NsA), KeyX), now)
  /\ Active(store, getKey(Plain(NsA), KeyY), now)
  /\ KeyIndex(store, getKey(Plain(NsA), KeyY)) < KeyIndex(store, getKey(Plain(NsA), KeyX))
  /\ keys(Plain(NsA), store, now, NoFault).ret = <<KeyY>>
  /\ get(Plain(NsA), KeyX, store, now, NoFault, 0).ret = JsNull

(***************************************************************************)
(* C4 as stated: two instances with DISTINCT namespaces over one store are *)
(* isolated: after a write through one of them, at any later time, get on  *)
(* the other never returns the written value, keys on the other never      *)
(* lists the written key, and clear on the other leaves the written entry. *)
(***************************************************************************)
\* B writes a payload that no other call writes; then A reads, lists, clears
Isolated(A, B) ==
  \A kB \in AllKeys, ttlOpt \in {Absent, 1}, t2 \in Later :
    LET w == set(B, kB, JsOther, ttlOpt, store, now, NoFault, 0).st
        fullKeyB == getKey(B, kB)
    IN /\ \A kA \in AllKeys : get(A, kA, w, t2, NoFault, 0).ret # JsOther
       /\ \A u \in Elements(keys(A, w, t2, NoFault).ret) : getKey(A, u) # fullKeyB
       /\ getItem(clear(A, w, NoFault).st, fullKeyB) = getItem(w, fullKeyB)

C4_DistinctNamespaces ==
  \A nA \in AllNamespaces, nB \in AllNamespaces :
    nA # nB => Isolated(Plain(nA), Plain(nB))

(***************************************************************************)
(* C4 amended: two instances are isolated in that sense when both have a   *)
(* non-empty namespace and neither namespace followed by ":" is a prefix   *)
(* of the other followed by ":"  ("a" and "ab" are isolated;  "a" and      *)
(* "a:b", or no namespace and "a", are not).                               *)
(***************************************************************************)
PrefixFree(nA, nB) ==
  /\ nA # EmptyString /\ nB # EmptyString
  /\ ~startsWith(nA \o Colon, nB \o Colon)
  /\ ~startsWith(nB \o Colon, nA \o Colon)

C4_PrefixFreeNamespaces ==
  \A nA \in AllNamespaces, nB \in AllNamespaces :
    PrefixFree(nA, nB) => Isolated(Plain(nA), Plain(nB))

\* the store holds live entries of namespace "a" and an un-namespaced one; after
\* a write through an instance of namespace "ab", clear of "a" removes the
\* entries of "a" only
C4_Witness ==
  /\ Active(store, getKey(Plain(NsA), KeyX), now)
  /\ Active(store, KeyEmpty, now)
  /\ LET w == set(Plain(NsAb), KeyX, JsOther, Absent, store, now, NoFault, 0).st
         c == clear(Plain(NsA), w, NoFault).st
     IN /\ ~HasKey(c, getKey(Plain(NsA), KeyX))
        /\ HasKey(c, getKey(Plain(NsAb), KeyX))
        /\ get(Plain(NsAb), KeyX, c, now, NoFault, 0).ret = JsOther
        /\ keys(Plain(NsA), w, now, NoFault).ret = <<KeyX>>

(***************************************************************************)
(* C5: on a store that does not fault, clear() returns true, afterwards no *)
(* key with the instance's namespace prefix is in the store, and every     *)
(* entry without that prefix is in the store with its value unchanged.     *)
(***************************************************************************)
C5_Clear ==
  \A inst \in PlainInstances :
    LET r == clear(inst, store, NoFault)
    IN /\ r.ret = TRUE
       /\ \A i \in 1..Len(r.st) : ~startsWith(r.st[i].key, inst.namespace)
       /\ \A i \in 1..Len(store) :
            ~startsWith(store[i].key, inst.namespace) =>
              getItem(r.st, store[i].key) = store[i].text

(***************************************************************************)
(* C6, for the instances with a namespace (their full keys are never       *)
(* empty): keys() lists every user key of the namespace whose entry is a   *)
(* well-formed, unexpired envelope, whatever else the store holds.         *)
(***************************************************************************)
C6_AllActiveKeys ==
  \A inst \in PlainInstances :
    inst.namespace # EmptyString =>
      \A i \in 1..Len(store) :
        (startsWith(store[i].key, inst.namespace) /\ Active(store, store[i].key, now)) =>
          substring(store[i].key, Len(inst.namespace))
            \in Elements(keys(inst, store, now, NoFault).ret)

(***************************************************************************)
(* C7: cleanup() returns the number of well-formed, expired entries of the *)
(* namespace, deletes exactly those, and leaves every other entry of the   *)
(* store (unexpired, corrupt, foreign) with its raw value unchanged.       *)
(***************************************************************************)
C7_Cleanup ==
  \A inst \in PlainInstances :
    LET r == cleanup(inst, store, now, NoFault)
        expired == {i \in 1..Len(store) : /\ startsWith(store[i].key, inst.namespace)
                                          /\ Expired(store, store[i].key, now)}
    IN /\ r.ret = Cardinality(expired)
       /\ \A i \in 1..Len(store) :
            IF i \in expired THEN ~HasKey(r.st, store[i].key)
            ELSE getItem(r.st, store[i].key) = store[i].text

(***************************************************************************)
(* C8 as stated: whichever store call faults, each operation returns its   *)
(* documented failure result: false for set, remove and clear, null for    *)
(* get, false for has, the EMPTY sequence for keys, ZERO for size and      *)
(* cleanup, {exists: false} for getInfo.                                   *)
(***************************************************************************)
C8_FailureResults ==
  \A inst \in PlainInstances, F \in AllFaults(store) :
    /\ \A k \in AllKeys :
         /\ set(inst, k, JsString, 1, store, now, F, 0).threw
              => set(inst, k, JsString, 1, store, now, F, 0).ret = FALSE
         /\ get(inst, k, store, now, F, 0).threw => get(inst, k, store, now, F, 0).ret = JsNull
         /\ has(inst, k, store, now, F, 0).threw => has(inst, k, store, now, F, 0).ret = FALSE
         /\ remove(inst, k, store, F, 0).threw => remove(inst, k, store, F, 0).ret = FALSE
         /\ getInfo(inst, k, store, now, F).threw => getInfo(inst, k, store, now, F).ret = NotExists
    /\ clear(inst, store, F).threw => clear(inst, store, F).ret = FALSE
    /\ keys(inst, store, now, F).threw => keys(inst, store, now, F).ret = << >>
    /\ size(inst, store, F).threw => size(inst, store, F).ret = 0
    /\ cleanup(inst, store, now, F).threw => cleanup(inst, store, now, F).ret = 0

(***************************************************************************)
(* C8 amended: whichever store call faults, set, remove and clear return   *)
(* false, get returns null, has returns false and getInfo returns          *)
(* {exists: false}; keys, size and cleanup return what they had gathered   *)
(* when the fault ended them: keys lists only active keys of the namespace,*)
(* size is at most the size without the fault, cleanup returns the number  *)
(* of entries it removed; these three return the empty sequence and zero   *)
(* when the first store call of the operation faults.  The constructor     *)
(* leaves at most its probe entry behind.                                  *)
(***************************************************************************)
C8_Total ==
  \A inst \in PlainInstances, F \in AllFaults(store) :
    /\ \A k \in AllKeys :
         /\ \A v \in AllValues :
              set(inst, k, v, 1, store, now, F, 0).threw
                => set(inst, k, v, 1, store, now, F, 0).ret = FALSE
         /\ get(inst, k, store, now, F, 0).threw => get(inst, k, store, now, F, 0).ret = JsNull
         /\ has(inst, k, store, now, F, 0).threw => has(inst, k, store, now, F, 0).ret = FALSE
         /\ remove(inst, k, store, F, 0).threw => remove(inst, k, store, F, 0).ret = FALSE
         /\ getInfo(inst, k, store, now, F).threw => getInfo(inst, k, store, now, F).ret = NotExists
    /\ clear(inst, store, F).threw => clear(inst, store, F).ret = FALSE
    /\ LET r == keys(inst, store, now, F)
       IN /\ \A u \in Elements(r.ret) : Active(store, getKey(inst, u), now)
          /\ Throws(F, 1) => r.ret = << >>
    /\ LET r == size(inst, store, F)
       IN /\ r.ret <= size(inst, store, NoFault).ret
          /\ Throws(F, 1) => r.ret = 0
    /\ LET r == cleanup(inst, store, now, F)
       IN /\ r.ret = Len(store) - Len(r.st)
          /\ r.ret <= cleanup(inst, store, now, NoFault).ret
          /\ Throws(F, 1) => r.ret = 0
    /\ LET r == testStorage(inst, store, F)
       IN \A i \in 1..Len(r.st) :
            r.st[i].key # inst.namespace \o TestSuffix =>
              getItem(store, r.st[i].key) = r.st[i].text

\* the probe of a constructor faulted and left its entry; with two live
\* entries in the store, a fault in the middle of keys, size or cleanup
\* leaves a result that is not empty or zero
C8_Witness ==
  /\ HasKey(store, getKey(Plain(NsA), TestSuffix))
  /\ Active(store, getKey(Plain(NsA), KeyX), now)
  /\ \E F \in AllFaults(store) :
       /\ keys(Plain(NsA), store, now, F).threw
       /\ keys(Plain(NsA), store, now, F).ret # << >>
       /\ size(Plain(NsA), store, F).threw
       /\ size(Plain(NsA), store, F).ret > 0

(***************************************************************************)
(* C9 as stated: when the underlying write of set(k, v) is rejected, set   *)
(* returns false, the store is as it was before the call, and a following  *)
(* get(k) returns NULL.                                                    *)
(***************************************************************************)
WriteRejected == [at |-> 1, sticky |-> FALSE]

C9_GetNullAfterRejectedSet ==
  \A inst \in PlainInstances, k \in AllKeys, ttlOpt \in {Absent, 1} :
    LET r == set(inst, k, JsOther, ttlOpt, store, now, WriteRejected, 0)
    IN /\ r.ret = FALSE
       /\ r.st = store
       /\ get(inst, k, r.st, now, NoFault, 0).ret = JsNull

(***************************************************************************)
(* C9 amended: when the underlying write of set(k, v) is rejected, set     *)
(* returns false and the store is as it was before the call; a following   *)
(* get(k) returns what it returned before the call: the payload of the     *)
(* entry that k already had if that entry is active, null otherwise.       *)
(***************************************************************************)
C9_RejectedSet ==
  \A inst \in PlainInstances, k \in AllKeys, v \in AllValues, ttlOpt \in {Absent, 1} :
    LET r == set(inst, k, v, ttlOpt, store, now, WriteRejected, 0)
        g == get(inst, k, r.st, now, NoFault, 0)
    IN /\ r.ret = FALSE
       /\ r.st = store
       /\ IF Active(store, getKey(inst, k), now)
          THEN g.ret = ParseValue(Entry(store, getKey(inst, k)).text.value)
          ELSE g.ret = JsNull

\* k has an active entry; a rejected set(k, w) leaves it, and get(k) returns
\* the old payload
C9_Witness ==
  /\ Active(store, getKey(Plain(NsA), KeyX), now)
  /\ LET r == set(Plain(NsA), KeyX, JsOther, Absent, store, now, WriteRejected, 0)
     IN /\ r.ret = FALSE
        /\ r.threw
        /\ get(Plain(NsA), KeyX, r.st, now, NoFault, 0).ret = JsString

(***************************************************************************)
(* C10: for every key k and every prior state of the store (the entry of   *)
(* k absent, active, expired or corrupt), after a remove(k) that the store *)
(* carried out, get(k) returns null, at once and at any later time.        *)
(***************************************************************************)
C10_RemoveThenGet ==
  \A inst \in PlainInstances, k \in AllKeys, t2 \in Later, F \in AllFaults(store) :
    LET r == remove(inst, k, store, NoFault, 0)
    IN /\ r.ret = TRUE
       /\ get(inst, k, r.st, t2, F, 0).ret = JsNull

\* k has an active entry that get returns; after remove(k), get(k) returns null
C10_Witness ==
  /\ Active(store, getKey(Plain(NsA), KeyX), now)
  /\ get(Plain(NsA), KeyX, store, now, NoFault, 0).ret = JsString
  /\ Expired(store, getKey(Plain(NsA), KeyY), now)
  /\ LET r == remove(Plain(NsA), KeyX, store, NoFault, 0)
     IN /\ r.ret = TRUE
        /\ ~HasKey(r.st, getKey(Plain(NsA), KeyX))
        /\ get(Plain(NsA), KeyX, r.st, now, NoFault, 0).ret = JsNull

(***************************************************************************)
(* C11: when the raw value under the full key of k is not an envelope with *)
(* both value and createdAt (the empty string, a text that is not JSON,    *)
(* the JSON null, a JSON number, an object that lacks value or createdAt), *)
(* get(k) on a store that does not fault returns null and removes that     *)
(* entry, and nothing else, from the store.                                *)
(***************************************************************************)
CorruptTexts == {EmptyText, TestText, NullText, ScalarText,
                 ObjectText(JsonAbsent, Null, 0), ObjectText(JsonString, Null, Absent)}

C11_CorruptRead ==
  \A inst \in PlainInstances, k \in AllKeys, text \in CorruptTexts :
    LET fullKey == getKey(inst, k)
        st == setItem(store, fullKey, text)
        g == get(inst, k, st, now, NoFault, 0)
    IN /\ g.ret = JsNull
       /\ ~HasKey(g.st, fullKey)
       /\ g.st = removeItem(st, fullKey)

\* another writer has put a text that is not JSON under a:x, before a live
\* entry a:y; get(x) returns null, deletes a:x and leaves a:y
C11_Witness ==
  /\ getItem(store, getKey(Plain(NsA), KeyX)) = TestText
  /\ Active(store, getKey(Plain(NsA), KeyY), now)
  /\ LET g == get(Plain(NsA), KeyX, store, now, NoFault, 0)
     IN /\ g.ret = JsNull
        /\ ~HasKey(g.st, getKey(Plain(NsA), KeyX))
        /\ HasKey(g.st, getKey(Plain(NsA), KeyY))

(***************************************************************************)
(* C12: after a successful set(k, v), for every value v that set accepts   *)
(* (a null payload included), has(k) is true exactly as long as the entry  *)
(* of k is in the store, well-formed and not expired.                      *)
(***************************************************************************)
C12_HasAfterSet ==
  \A inst \in AllInstances, k \in AllKeys, v \in AllValues, ttlOpt \in {Absent, 1}, t2 \in Later :
    LET s == set(inst, k, v, ttlOpt, store, now, NoFault, 0)
    IN s.ret = TRUE =>
         has(inst, k, s.st, t2, NoFault, 0).ret = Active(s.st, getKey(inst, k), t2)

(***************************************************************************)
(* C13: two instances that differ only in enableWarnings, applied to the   *)
(* same store at the same clock value with the same store fault, return    *)
(* the same result from every operation and leave the same store; only     *)
(* whether a warning is printed differs.  (The operations are functions of *)
(* the instance, the store, the clock and the fault, so equal results and  *)
(* stores after each step give equal results after every sequence.)        *)
(***************************************************************************)
WarningPairs ==
  {<<Instance([namespace |-> ns, defaultTTL |-> d, enableWarnings |-> "true"]),
     Instance([namespace |-> ns, defaultTTL |-> d, enableWarnings |-> "false"])>> :
     ns \in {NsNone, NsA}, d \in {Absent, 2}}

SameOutcome(r1, r2) == r1.st = r2.st /\ r1.ret = r2.ret /\ r1.threw = r2.threw

\* the operations on one key
SameKeyed(p, F) ==
  \A k \in AllKeys :
    /\ \A v \in {JsString, JsUndefined, JsBigInt}, ttlOpt \in {Absent, 1} :
         SameOutcome(set(p[1], k, v, ttlOpt, store, now, F, 0),
                     set(p[2], k, v, ttlOpt, store, now, F, 0))
    /\ SameOutcome(get(p[1], k, store, now, F, 0), get(p[2], k, store, now, F, 0))
    /\ SameOutcome(has(p[1], k, store, now, F, 0), has(p[2], k, store, now, F, 0))
    /\ SameOutcome(remove(p[1], k, store, F, 0), remove(p[2], k, store, F, 0))
    /\ SameOutcome(getInfo(p[1], k, store, now, F), getInfo(p[2], k, store, now, F))

\* the operations that walk the store
SameScans(p, F) ==
  /\ SameOutcome(clear(p[1], store, F), clear(p[2], store, F))
  /\ SameOutcome(keys(p[1], store, now, F), keys(p[2], store, now, F))
  /\ SameOutcome(size(p[1], store, F), size(p[2], store, F))
  /\ SameOutcome(cleanup(p[1], store, now, F), cleanup(p[2], store, now, F))

\* C13: instances that differ only in enableWarnings return the same result
\* and leave the same store from every operation, under every store fault
C13_WarningsSideChannel ==
  \A p \in WarningPairs :
    /\ p[1].enableWarnings /\ ~p[2].enableWarnings
    /\ \A F \in KeyedFaults :
         /\ SameOutcome(testStorage(p[1], store, F), testStorage(p[2], store, F))
         /\ SameKeyed(p, F)
    /\ \A F \in AllFaults(store) : SameScans(p, F)

\* the store holds a live entry and a probe entry that a faulting constructor
\* left; a rejected set warns on one instance, is silent on the other, and
\* both return false and leave the store as it is
C13_Witness ==
  /\ Active(store, getKey(Plain(NsA), KeyX), now)
  /\ HasKey(store, getKey(Plain(NsA), TestSuffix))
  /\ \E p \in WarningPairs :
       LET r1 == set(p[1], KeyX, JsOther, Absent, store, now, WriteRejected, 0)
           r2 == set(p[2], KeyX, JsOther, Absent, store, now, WriteRejected, 0)
       IN /\ p[1].namespace = NsA \o Colon
          /\ warned(p[1], r1) /\ ~warned(p[2], r2)
          /\ r1.ret = FALSE /\ r2.ret = FALSE
          /\ r1.st = store /\ r2.st = store

(***************************************************************************)
(* C14: getInfo(k) on an entry whose raw value is corrupt returns          *)
(* {exists: false} and deletes the entry from the store, as get does;      *)
(* cleanup leaves the corrupt entry in place.                              *)
(***************************************************************************)
C14_GetInfoDeletesCorrupt ==
  \A inst \in PlainInstances, k \in AllKeys, text \in CorruptTexts :
    LET fullKey == getKey(inst, k)
        st == setItem(store, fullKey, text)
    IN /\ getInfo(inst, k, st, now, NoFault).ret = NotExists
       /\ ~HasKey(getInfo(inst, k, st, now, NoFault).st, fullKey)
       /\ ~HasKey(get(inst, k, st, now, NoFault, 0).st, fullKey)
       /\ getItem(cleanup(inst, st, now, NoFault).st, fullKey) = text

(***************************************************************************)
(* C15: the envelope that set writes has createdAt = now and expiresAt =   *)
(* createdAt + ttl, where ttl is the per-call ttl whenever one is given    *)
(* (whatever its value) and the defaultTTL option otherwise; expiresAt is  *)
(* null exactly when neither is given.                                     *)
(***************************************************************************)
AllOptions == Options(AllNamespaces, {Absent, 0, 2}, {"undefined"})

C15_Envelope ==
  \A opts \in AllOptions, k \in AllKeys, ttlOpt \in {Absent, 0, 1} :
    LET s == set(Instance(opts), k, JsString, ttlOpt, store, now, NoFault, 0)
        written == Entry(s.st, getKey(Instance(opts), k)).text
    IN /\ s.ret = TRUE
       /\ written.kind = "object"
       /\ written.createdAt = now
       /\ written.expiresAt = IF ttlOpt # Absent THEN now + ttlOpt
                              ELSE IF opts.defaultTTL # Absent THEN now + opts.defaultTTL
                              ELSE Null

(***************************************************************************)
(* C16: a well-formed entry of the namespace is treated as expired by get, *)
(* has, getInfo, keys and cleanup exactly when its expiresAt is a number   *)
(* and the current time is strictly greater: get returns null, has false,  *)
(* getInfo {exists: false}, keys omits it and cleanup deletes it in that   *)
(* case and in no other; an entry that is not expired (at now = expiresAt  *)
(* in particular) is still in the store, unchanged, after each of get,     *)
(* has, getInfo, keys, size and cleanup.                                   *)
(***************************************************************************)
C16_StrictExpiry ==
  \A inst \in PlainInstances, i \in 1..Len(store) :
    (startsWith(store[i].key, inst.namespace) /\ WellFormed(store, store[i].key)) =>
      LET fullKey == store[i].key
          u == substring(fullKey, Len(inst.namespace))
          expired == Expired(store, fullKey, now)
      IN /\ (get(inst, u, store, now, NoFault, 0).ret = JsNull) = expired
         /\ has(inst, u, store, now, NoFault, 0).ret = ~expired
         /\ getInfo(inst, u, store, now, NoFault).ret.exists = ~expired
         /\ (u \in Elements(keys(inst, store, now, NoFault).ret)) = ~expired
         /\ HasKey(cleanup(inst, store, now, NoFault).st, fullKey) = ~expired
         /\ ~expired =>
              \A after \in {get(inst, u, store, now, NoFault, 0).st,
                            has(inst, u, store, now, NoFault, 0).st,
                            getInfo(inst, u, store, now, NoFault).st,
                            keys(inst, store, now, NoFault).st,
                            size(inst, store, NoFault).st,
                            cleanup(inst, store, now, NoFault).st} :
                getItem(after, fullKey) = store[i].text

(***************************************************************************)
(* C17: size() returns the sum, over every entry of the store whose full   *)
(* key has the namespace prefix, of the length of the full key plus the    *)
(* length of the raw value, expired and corrupt entries included, and it   *)
(* leaves the store as it is.                                              *)
(***************************************************************************)
RECURSIVE SumOfSizes(_, _, _)
SumOfSizes(inst, st, i) ==
  IF i > Len(st) THEN 0
  ELSE (IF startsWith(st[i].key, inst.namespace)
        THEN Len(st[i].key) + TextLen(st[i].text) ELSE 0) + SumOfSizes(inst, st, i + 1)

C17_Size ==
  \A inst \in PlainInstances :
    /\ size(inst, store, NoFault).ret = SumOfSizes(inst, store, 1)
    /\ size(inst, store, NoFault).st = store

(***************************************************************************)
(* C18: constructing an instance over a store that does not fault leaves   *)
(* every entry of the store in place with its value, whatever the store    *)
(* holds and whatever the namespace.                                       *)
(***************************************************************************)
C18_ConstructorFrame ==
  \A inst \in PlainInstances, k \in AllKeys \cup {TestSuffix} :
    LET st == set(inst, k, JsString, Absent, store, now, NoFault, 0).st
    IN testStorage(inst, st, NoFault).st = st

(***************************************************************************)
(* C19: get, has, keys, size, cleanup and getInfo only delete, and only    *)
(* entries of the instance's namespace: whichever store call faults, the   *)
(* store after the call is the store before it without some entries whose  *)
(* full key has the namespace prefix; no entry is added, changed or moved  *)
(* past another.                                                           *)
(***************************************************************************)
OwnDeletionsOnly(inst, before, after) ==
  /\ after = SelectSeq(before, LAMBDA e : e \in Elements(after))
  /\ \A e \in Elements(before) :
       ~startsWith(e.key, inst.namespace) => e \in Elements(after)

C19_OwnDeletionsOnly ==
  \A inst \in PlainInstances :
    /\ \A k \in AllKeys, F \in KeyedFaults :
         /\ OwnDeletionsOnly(inst, store, get(inst, k, store, now, F, 0).st)
         /\ OwnDeletionsOnly(inst, store, has(inst, k, store, now, F, 0).st)
         /\ OwnDeletionsOnly(inst, store, getInfo(inst, k, store, now, F).st)
    /\ \A F \in AllFaults(store) :
         /\ OwnDeletionsOnly(inst, store, keys(inst, store, now, F).st)
         /\ OwnDeletionsOnly(inst, store, size(inst, store, F).st)
         /\ OwnDeletionsOnly(inst, store, cleanup(inst, store, now, F).st)

\* the store holds an expired entry outside namespace "a" (under the empty
\* key), an expired entry a:x and a corrupt entry a:y; cleanup and keys of
\* namespace "a" delete entries of "a" and leave the entry outside
C19_Witness ==
  /\ Expired(store, KeyEmpty, now)
  /\ Expired(store, getKey(Plain(NsA), KeyX), now)
  /\ getItem(store, getKey(Plain(NsA), KeyY)) = TestText
  /\ ~HasKey(cleanup(Plain(NsA), store, now, NoFault).st, getKey(Plain(NsA), KeyX))
  /\ Len(keys(Plain(NsA), store, now, NoFault).st) < Len(store)
  /\ HasKey(cleanup(Plain(NsA), store, now, NoFault).st, KeyEmpty)
  /\ HasKey(keys(Plain(NsA), store, now, NoFault).st, KeyEmpty)

(***************************************************************************)
(* C20: at a fixed clock value, get(k) returns the same result after a     *)
(* cleanup() as without it, for every key k and every store, and after a   *)
(* cleanup() on a store that does not fault no well-formed expired entry   *)
(* of the namespace is left in the store.                                  *)
(***************************************************************************)
C20_CleanupInvisible ==
  \A inst \in PlainInstances :
    LET c == cleanup(inst, store, now, NoFault)
    IN /\ \A k \in AllKeys :
            get(inst, k, c.st, now, NoFault, 0).ret = get(inst, k, store, now, NoFault, 0).ret
       /\ \A i \in 1..Len(c.st) :
            startsWith(c.st[i].key, inst.namespace) => ~Expired(c.st, c.st[i].key, now)

====
